---------------------------- MODULE Spec2Model ----------------------------
(***************************************************************************)
(* Model of the openprm planning core: the SpatialGraph roadmap of         *)
(* src/utils/spatialrep.h and the ClassicPRM planner of                    *)
(* src/planners/classicprm.h.                                              *)
(*                                                                         *)
(* Configurations are vectors of fixed-point coordinates: the integer k    *)
(* stands for the real k / Scale, so distances and edge weights keep their *)
(* fractional part and the conversion to int made by the searches'         *)
(* distance maps (std::vector<int>) is the division  \div Scale.           *)
(***************************************************************************)
EXTENDS Integers, Sequences, FiniteSets, TLC

(***************************************************************************)
(* Bounds of the model.                                                    *)
(***************************************************************************)
Scale == 2            \* fixed-point resolution: coordinate k is k / Scale
MaxPos == 2           \* coordinates range over 0..MaxPos
MaxSized == 2         \* largest m_nodes given to the sized constructor
MaxThresh == 1        \* neighbour thresholds given to the sized constructor: 1..MaxThresh
MaxGraphNodes == 3    \* addNode calls made on the graph under test
MaxInList == 1        \* longest list a caller hands to findNN or to a search

(***************************************************************************)
(* Program constants.                                                      *)
(***************************************************************************)
DMAXNODES == 100
DNTHRESH == 5
IntMax == 2147483647  \* std::numeric_limits<int>::max(), "infinity" of the int distance maps

RobotDOFs == {1}      \* active DOF counts of the robots planned for
Coords == 0..MaxPos
Configs(dof) == [1..dof -> Coords]

Abs(x) == IF x < 0 THEN -x ELSE x

RECURSIVE SumAbs(_, _, _)
SumAbs(a, b, i) ==
    IF i = 0 THEN 0 ELSE Abs(a[i] - b[i]) + SumAbs(a, b, i - 1)

\* DistMetric::Eval (oputils.h): the configuration-space distance; for one
\* degree of freedom the Euclidean distance |a - b|.
Eval(a, b) == SumAbs(a, b, IF Len(a) < Len(b) THEN Len(a) ELSE Len(b))

\* F of the value of x: x is worked out once and F reads the result
With(x, F(_)) == CHOOSE y \in {F(v) : v \in {x}} : TRUE

(***************************************************************************)
(* State.                                                                  *)
(***************************************************************************)
VARIABLES
    g_roadmap,      \* the SpatialGraph object (NoGraph before construction)
    call,           \* the last SpatialGraph call: name, arguments, lists, result
    crashed,        \* the process died on an out-of-bounds read
    walls,          \* the environment's obstacles (collision oracle)
    pparams,        \* the caller's parameter object handed to InitPlan
    p_parameters,   \* ClassicPRM::p_parameters (NoParams before InitPlan)
    p_robot,        \* ClassicPRM::p_robot
    vv_cs_samples,  \* ClassicPRM::vv_cs_samples
    l_pathnodes,    \* ClassicPRM::l_pathnodes
    n_start,        \* ClassicPRM::n_start
    n_goal,         \* ClassicPRM::n_goal
    plan,           \* the last planner call: its name, result, trajectory
    tree,           \* the SpatialTree object under test
    ext,            \* the last SpatialTree call: name, arguments, result
    constraintfn,   \* the parameters' _constraintfn (NoConstraint when empty)
    t_start,        \* SBLPlanner::t_start
    t_goal,         \* SBLPlanner::t_goal
    b_connected,    \* SBLPlanner::b_connected
    sbl,            \* the SBLPlanner call in progress and its last round
    threads,        \* the callers of the planning entry points, by position
    mutex           \* the environment mutex: its owner, 0 when free

gvars == <<g_roadmap, call>>
pvars == <<pparams, p_parameters, p_robot, vv_cs_samples, l_pathnodes,
           n_start, n_goal, plan>>
svars == <<t_start, t_goal, b_connected, sbl>>
mvars == <<threads, mutex>>
tvars == <<tree, ext, constraintfn, svars, mvars>>
vars == <<g_roadmap, call, crashed, walls, pparams,
          p_parameters, p_robot, vv_cs_samples, l_pathnodes, n_start,
          n_goal, plan, tree, ext, constraintfn,
          t_start, t_goal, b_connected, sbl, threads, mutex>>

NoGraph == [max_nodes |-> 0, neigh_thresh |-> 0, node_list |-> <<>>,
            num_vertices |-> 0, edge_list |-> <<>>, built |-> FALSE]
NoParams == [set |-> FALSE]

\* the last planner call: the value returned, the points appended to the
\* trajectory, the searches findPath ran, what A* left, whether
\* addStartConfig / addGoalConfig added an edge
Plan(op, ret, traj, searches, asFound, asPath, startEdge, goalEdge) ==
    [op |-> op, ret |-> ret, traj |-> traj, searches |-> searches,
     asFound |-> asFound, asPath |-> asPath,
     startEdge |-> startEdge, goalEdge |-> goalEdge]

NoPlan == Plan("none", FALSE, <<>>, <<>>, FALSE, <<>>, FALSE, FALSE)

\* enum ExtendType
ET_Failed == 0
ET_Sucess == 1
ET_Connected == 2

NoTree == [_nodes |-> <<>>, _fStepLength |-> 0, _dof |-> 0, built |-> FALSE]
NoConstraint == [set |-> FALSE]

\* the last SpatialTree call: the target and bOneStep handed in, the value
\* returned and the out-index, the tree size before the call, the nodes
\* appended, the segments put to the collision oracle with its answers, the
\* calls of the constraint function, whether the call returned at all
Ext(op, target, bOneStep, ret, lastindex, before, added, asked, consulted, returned) ==
    [op |-> op, target |-> target, bOneStep |-> bOneStep, ret |-> ret,
     lastindex |-> lastindex, before |-> before, added |-> added,
     asked |-> asked, consulted |-> consulted, returned |-> returned]

NoExt == Ext("none", <<>>, FALSE, 0, 0, 0, 0, <<>>, 0, TRUE)

\* one round of SBLPlanner::buildTrees: how it went, what the two Extend
\* calls returned, whether the second tree was extended, the configuration
\* of the first tree's frontier node handed to the second tree
Round(kind, ets, etg, second, frontier) ==
    [kind |-> kind, ets |-> ets, etg |-> etg, second |-> second,
     frontier |-> frontier]

NoRound == Round("none", 0, 0, FALSE, <<>>)

\* the SBLPlanner call in progress: where PlanPath stands, the root indices
\* it handed to buildTrees, the calls and rounds made so far, how the last
\* PlanPath ended; wired and step say how the trees of InitPlan are set up
SBL(pc, wired, step, start_id, goal_id, inits, calls, rounds, last, outcome) ==
    [pc |-> pc, wired |-> wired, step |-> step, start_id |-> start_id,
     goal_id |-> goal_id, inits |-> inits, calls |-> calls,
     rounds |-> rounds, last |-> last, outcome |-> outcome]

NoSBL == SBL("idle", FALSE, 0, 0, 0, 0, 0, 0, NoRound, "none")

SBLIdle ==
    /\ t_start = NoTree
    /\ t_goal = NoTree
    /\ b_connected = FALSE
    /\ sbl = NoSBL

MutexIdle ==
    /\ threads = <<>>
    /\ mutex = 0

TreeIdle ==
    /\ tree = NoTree
    /\ ext = NoExt
    /\ constraintfn = NoConstraint
    /\ SBLIdle
    /\ MutexIdle

(***************************************************************************)
(* SpatialGraph.                                                           *)
(***************************************************************************)
\* s_node(conf, v)
s_node(conf, v) == [nconfig |-> conf, vertex |-> v]

\* SpatialGraph(): an empty boost graph, the default bound and threshold.
SpatialGraphDefault ==
    [max_nodes |-> DMAXNODES, neigh_thresh |-> DNTHRESH * Scale,
     node_list |-> <<>>, num_vertices |-> 0, edge_list |-> <<>>,
     built |-> TRUE]

\* SpatialGraph(m_nodes, n_thresh): s_graph g(max_nodes) holds max_nodes
\* vertices from the start.
SpatialGraphSized(m_nodes, n_thresh) ==
    [max_nodes |-> m_nodes, neigh_thresh |-> n_thresh,
     node_list |-> <<>>, num_vertices |-> m_nodes, edge_list |-> <<>>,
     built |-> TRUE]

\* the handle boost::add_vertex returns
newVertex(G) == G.num_vertices

addNode(G, conf) ==
    [G EXCEPT !.num_vertices = @ + 1,
              !.node_list = Append(@, s_node(conf, newVertex(G)))]

Handles(G) == {G.node_list[i].vertex : i \in 1..Len(G.node_list)}

\* getNode: the last stored node whose vertex is v; a default-constructed
\* s_node (empty configuration) when there is none.
getNode(G, v) ==
    LET hits == {i \in 1..Len(G.node_list) : G.node_list[i].vertex = v}
    IN  IF hits = {} THEN s_node(<<>>, v)
        ELSE G.node_list[CHOOSE i \in hits : \A j \in hits : j <= i]

\* An edge of the undirected boost graph: its two ends and its weight.  The
\* edge list is a sequence, so a second edge between the same ends would show.
s_edge(u, v, w) == [ends |-> {u, v}, weight |-> w]

\* the other end of edge e seen from u (u itself for a self-loop)
opposite(e, u) == IF e.ends = {u} THEN u ELSE CHOOSE v \in e.ends : v # u

\* boost::adjacent_vertices(v, p_graph) of the undirected graph
adjacent_vertices(G, v) ==
    {opposite(G.edge_list[i], v) :
        i \in {j \in 1..Len(G.edge_list) : v \in G.edge_list[j].ends}}

edgeExists(G, u, v) ==
    IF u = v THEN TRUE ELSE u \in adjacent_vertices(G, v)

\* the distance test of addEdge
tooFar_never(G, dist) == FALSE
tooFar(G, dist) == dist > G.neigh_thresh

\* addEdge: [ret, g]
addEdge(G, u, v) ==
    IF edgeExists(G, u, v) \/ u = v
    THEN [ret |-> FALSE, g |-> G]
    ELSE LET dist == Eval(getNode(G, u).nconfig, getNode(G, v).nconfig)
         IN  IF tooFar(G, dist)
             THEN [ret |-> FALSE, g |-> G]
             ELSE [ret |-> TRUE,
                   g |-> [G EXCEPT !.edge_list =
                            Append(@, s_edge(u, v, dist))]]

\* findNN: [ret, out]
findNN(G, n, out) ==
    IF Len(G.node_list) <= 1 THEN [ret |-> 0, out |-> out]
    ELSE IF n > Len(G.node_list) THEN [ret |-> 0, out |-> out]
    ELSE LET nn == getNode(G, n)
             Near(it) == /\ ~edgeExists(G, n, it.vertex)
                         /\ Eval(nn.nconfig, it.nconfig) <= G.neigh_thresh
             found == SelectSeq(G.node_list, Near)
         IN  [ret |-> Len(found), out |-> found]


(***************************************************************************)
(* The two searches.  boost::dijkstra_shortest_paths and                   *)
(* boost::astar_search are modelled by their algorithms: a priority-first  *)
(* visit over all num_vertices vertices that relaxes the out-edges of the  *)
(* vertex it examines, equal keys taken lowest vertex first.  Both are     *)
(* given an int distance map.                                              *)
(***************************************************************************)
Vertices(G) == 0..(G.num_vertices - 1)

\* the vertex of Q with the least key, the lowest one among equals
MinBy(Q, key) ==
    CHOOSE x \in Q : \A y \in Q : key[x] < key[y] \/ (key[x] = key[y] /\ x <= y)

\* dijkstra: relax the edges at u from the i-th on.  The distance type is
\* int, so closed_plus<int> adds the weight converted to int.
RECURSIVE dkRelax(_, _, _, _)
dkRelax(G, st, u, i) ==
    IF i > Len(G.edge_list) THEN st
    ELSE LET e == G.edge_list[i]
             v == opposite(e, u)
             nd == st.d[u] + (e.weight \div Scale)
         IN  IF u \in e.ends /\ v \notin st.black /\ nd < st.d[v]
             THEN dkRelax(G, [st EXCEPT !.d[v] = nd, !.p[v] = u,
                                        !.gray = @ \cup {v}], u, i + 1)
             ELSE dkRelax(G, st, u, i + 1)

RECURSIVE dkLoop(_, _)
dkLoop(G, st) ==
    IF st.gray = {} THEN st
    ELSE LET u == MinBy(st.gray, st.d)
             st1 == dkRelax(G, st, u, 1)
         IN  dkLoop(G, [st1 EXCEPT !.gray = @ \ {u}, !.black = @ \cup {u}])

\* the predecessor map p after boost::dijkstra_shortest_paths(p_graph, start)
dijkstra_shortest_paths(G, start) ==
    dkLoop(G, [d |-> [v \in Vertices(G) |-> IF v = start THEN 0 ELSE IntMax],
               p |-> [v \in Vertices(G) |-> v],
               gray |-> {start}, black |-> {}]).p

\* do { s_path.push_front(getNode(child)); child = p[child]; }
\* while (child != p[child]);
RECURSIVE dkWalk(_, _, _, _)
dkWalk(G, p, child, path) ==
    LET path1 == <<getNode(G, child)>> \o path
        next == p[child]
    IN  IF next # p[next] THEN dkWalk(G, p, next, path1)
        ELSE [child |-> next, path |-> path1]

\* the test that ends findPathDK's walk
dkNoPath(child, f) == child = f.vertex

\* findPathDK: [ret, path]
findPathDK(G, f, t, path) ==
    LET p == dijkstra_shortest_paths(G, f.vertex)
        w == dkWalk(G, p, t.vertex, path)
    IN  IF dkNoPath(w.child, f) THEN [ret |-> FALSE, path |-> w.path]
        ELSE [ret |-> TRUE, path |-> <<f>> \o w.path]

\* node_map: the copy of node_list, indexed from 0 by position
InNodeMap(G, i) == i < Len(G.node_list)

\* distance_heuristic::operator(): m_node[m_goal] against m_node[u].  An
\* index outside node_map reads past the array: junk[u] stands for what
\* that read yields (junk covers the vertices the search can ask about).
distance_heuristic(G, goal, junk) ==
    [u \in Vertices(G) |->
        IF InNodeMap(G, goal) /\ InNodeMap(G, u)
        THEN Eval(G.node_list[goal + 1].nconfig, G.node_list[u + 1].nconfig)
        ELSE IF u \in DOMAIN junk THEN junk[u] ELSE 0]

\* astar: relax the edges at u from the i-th on.  The cost type is the
\* weight type; the distance read back from the int map is whole.
RECURSIVE asRelax(_, _, _, _, _)
asRelax(G, h, st, u, i) ==
    IF i > Len(G.edge_list) THEN st
    ELSE LET e == G.edge_list[i]
             v == opposite(e, u)
             nd == st.d[u] * Scale + e.weight
             better == IF st.d[v] = IntMax THEN TRUE ELSE nd < st.d[v] * Scale
         IN  IF u \in e.ends /\ better
             THEN asRelax(G, h,
                    [st EXCEPT !.d[v] = nd \div Scale, !.p[v] = u,
                               !.cost[v] = (nd \div Scale) * Scale + h[v],
                               !.gray = @ \cup {v}, !.black = @ \ {v},
                               !.asked = @ \cup {v}], u, i + 1)
             ELSE asRelax(G, h, st, u, i + 1)

\* astar_goal_visitor::examine_vertex throws found_goal at the goal
RECURSIVE asLoop(_, _, _, _)
asLoop(G, h, goal, st) ==
    IF st.gray = {} THEN st
    ELSE LET u == MinBy(st.gray, st.cost)
             st0 == [st EXCEPT !.examined = Append(@, u)]
         IN  IF u = goal THEN [st0 EXCEPT !.found = TRUE]
             ELSE LET st1 == asRelax(G, h, st0, u, 1)
                  IN  asLoop(G, h, goal,
                             [st1 EXCEPT !.gray = @ \ {u}, !.black = @ \cup {u}])

astar_search(G, start, goal, h) ==
    asLoop(G, h, goal,
           [d |-> [v \in Vertices(G) |-> IF v = start THEN 0 ELSE IntMax],
            p |-> [v \in Vertices(G) |-> v],
            cost |-> [v \in Vertices(G) |-> IF v = start THEN h[start] ELSE IntMax],
            gray |-> {start}, black |-> {}, asked |-> {start},
            examined |-> <<>>, found |-> FALSE])

\* for (v = goal;; v = p[v]) { s_path.push_front(getNode(v)); if (p[v] == v) break; }
RECURSIVE asWalk_breakFirst(_, _, _, _)
asWalk_breakFirst(G, p, v, path) ==
    IF p[v] = v THEN path
    ELSE asWalk_breakFirst(G, p, p[v], <<getNode(G, v)>> \o path)

RECURSIVE asWalk(_, _, _, _)
asWalk(G, p, v, path) ==
    LET path1 == <<getNode(G, v)>> \o path
    IN  IF p[v] = v THEN path1 ELSE asWalk(G, p, p[v], path1)

\* the value findPathAS returns
asReturn_found(found) == found
asReturn(found) == TRUE

\* findPathAS: [ret, path, found, examined, oob]; oob: the heuristic read
\* outside node_map during the search
findPathAS(G, f, t, path, junk) ==
    LET goal == t.vertex
        st == astar_search(G, f.vertex, goal, distance_heuristic(G, goal, junk))
    IN  [ret |-> asReturn(st.found),
         path |-> IF st.found THEN asWalk(G, st.p, goal, path) ELSE path,
         found |-> st.found, examined |-> st.examined,
         oob |-> ~InNodeMap(G, goal) \/ \E u \in st.asked : ~InNodeMap(G, u)]


(***************************************************************************)
(* The SpatialGraph under test: a graph built by one of the constructors,  *)
(* then any sequence of calls.  A call that leaves the graph as it is      *)
(* (findNN, a search, a refused addEdge) is recorded and ends the          *)
(* behaviour: the same call made after it reaches nothing that the call    *)
(* made directly does not.                                                 *)
(***************************************************************************)
Call(op, a, b, inlist, outlist, ret, found, examined, changed) ==
    [op |-> op, a |-> a, b |-> b, inlist |-> inlist, outlist |-> outlist,
     ret |-> ret, found |-> found, examined |-> examined, changed |-> changed]

NoCall == Call("none", 0, 0, <<>>, <<>>, FALSE, FALSE, <<>>, TRUE)

NodeSet(G) == {G.node_list[i] : i \in 1..Len(G.node_list)}

\* the lists a caller may hand in: empty, or holding nodes of the graph
InLists(G) == UNION {[1..k -> NodeSet(G)] : k \in 0..MaxInList}

\* what a read outside node_map may yield as a heuristic value
JunkValues == {0, MaxPos + 1}
Junk(G, f) == [Handles(G) \cup {f.vertex} -> JunkValues]
NoJunk(G) == [u \in Handles(G) |-> 0]

PlannerIdle ==
    /\ walls = {}
    /\ pparams = NoParams
    /\ p_parameters = NoParams
    /\ p_robot = 0
    /\ vv_cs_samples = <<>>
    /\ l_pathnodes = <<>>
    /\ n_start = s_node(<<>>, 0)
    /\ n_goal = s_node(<<>>, 0)
    /\ plan = NoPlan
    /\ TreeIdle

InitGraph ==
    /\ g_roadmap \in {SpatialGraphDefault} \cup
           {SpatialGraphSized(m, t) : m \in 1..MaxSized, t \in 1..MaxThresh}
    /\ call = NoCall
    /\ crashed = FALSE
    /\ PlannerIdle

CanCall == ~crashed /\ call.changed

AddNode(conf) ==
    /\ CanCall
    /\ Len(g_roadmap.node_list) < MaxGraphNodes
    /\ g_roadmap' = addNode(g_roadmap, conf)
    /\ call' = Call("addNode", conf, 0, <<>>, <<>>, newVertex(g_roadmap),
                    FALSE, <<>>, TRUE)
    /\ UNCHANGED <<crashed, walls, pvars, tvars>>

AddEdge(u, v) ==
    /\ CanCall
    /\ LET r == addEdge(g_roadmap, u, v)
       IN  /\ g_roadmap' = r.g
           /\ call' = Call("addEdge", u, v, <<>>, <<>>, r.ret, FALSE, <<>>, r.ret)
    /\ UNCHANGED <<crashed, walls, pvars, tvars>>

FindNN(n, inlist) ==
    /\ CanCall
    /\ LET r == findNN(g_roadmap, n, inlist)
       IN  call' = Call("findNN", n, 0, inlist, r.out, r.ret, FALSE, <<>>, FALSE)
    /\ UNCHANGED <<g_roadmap, crashed, walls, pvars, tvars>>

FindPathDK(f, t, inlist) ==
    /\ CanCall
    /\ LET r == findPathDK(g_roadmap, f, t, inlist)
       IN  call' = Call("findPathDK", f, t, inlist, r.path, r.ret, FALSE, <<>>, FALSE)
    /\ UNCHANGED <<g_roadmap, crashed, walls, pvars, tvars>>

\* A heuristic read outside node_map is undefined: the call dies, or goes on
\* with whatever the read yields.
FindPathAS(f, t, inlist) ==
    /\ CanCall
    /\ LET r0 == findPathAS(g_roadmap, f, t, inlist, NoJunk(g_roadmap))
       IN  IF ~r0.oob
           THEN /\ call' = Call("findPathAS", f, t, inlist, r0.path, r0.ret,
                                r0.found, r0.examined, FALSE)
                /\ crashed' = FALSE
           ELSE \/ /\ call' = Call("findPathAS", f, t, inlist, inlist, FALSE,
                                   FALSE, <<>>, FALSE)
                   /\ crashed' = TRUE
                \/ \E junk \in Junk(g_roadmap, f) :
                     LET r == findPathAS(g_roadmap, f, t, inlist, junk)
                     IN  /\ call' = Call("findPathAS", f, t, inlist, r.path,
                                         r.ret, r.found, r.examined, FALSE)
                         /\ crashed' = FALSE
    /\ UNCHANGED <<g_roadmap, walls, pvars, tvars>>

\* the values up to the next handle that are no handle of a stored node
StrayHandles(G) == (0..G.num_vertices) \ Handles(G)

NextGraph ==
    \/ \E dof \in RobotDOFs : \E conf \in Configs(dof) : AddNode(conf)
    \/ \E u, v \in Handles(g_roadmap) : AddEdge(u, v)
    \/ \E n \in Handles(g_roadmap) : \E l \in InLists(g_roadmap) : FindNN(n, l)
    \/ \E n \in StrayHandles(g_roadmap) : \E l \in InLists(g_roadmap) : FindNN(n, l)
    \/ \E f, t \in NodeSet(g_roadmap) : \E l \in InLists(g_roadmap) :
           FindPathDK(f, t, l)
    \/ \E f, t \in NodeSet(g_roadmap) : \E l \in InLists(g_roadmap) :
           FindPathAS(f, t, l)

Spec == InitGraph /\ [][NextGraph]_vars

(***************************************************************************)
(* Larger graphs for the searches: the caller inserts its nodes first,     *)
(* then its edges, lower pairs first, then runs one findPathDK with an     *)
(* empty list.                                                             *)
(***************************************************************************)
MaxSearchNodes == 4   \* addNode calls made before a search

\* the pair {u, v} comes after every pair already joined
AfterEdges(G, u, v) ==
    \A i \in 1..Len(G.edge_list) :
        \E a, b \in G.edge_list[i].ends :
            a < b /\ (a < u \/ (a = u /\ b < v))

SearchAddNode(conf) ==
    /\ CanCall
    /\ g_roadmap.edge_list = <<>>
    /\ Len(g_roadmap.node_list) < MaxSearchNodes
    /\ g_roadmap' = addNode(g_roadmap, conf)
    /\ call' = Call("addNode", conf, 0, <<>>, <<>>, newVertex(g_roadmap),
                    FALSE, <<>>, TRUE)
    /\ UNCHANGED <<crashed, walls, pvars, tvars>>

SearchAddEdge(u, v) ==
    /\ CanCall
    /\ u < v
    /\ AfterEdges(g_roadmap, u, v)
    /\ \E r \in {addEdge(g_roadmap, u, v)} :
         /\ r.ret
         /\ g_roadmap' = r.g
         /\ call' = Call("addEdge", u, v, <<>>, <<>>, r.ret, FALSE, <<>>, TRUE)
    /\ UNCHANGED <<crashed, walls, pvars, tvars>>

NextSearch ==
    \/ \E dof \in RobotDOFs : \E conf \in Configs(dof) : SearchAddNode(conf)
    \/ \E u, v \in Handles(g_roadmap) : SearchAddEdge(u, v)
    \/ \E f, t \in NodeSet(g_roadmap) : FindPathDK(f, t, <<>>)

SpecSearch == InitGraph /\ [][NextSearch]_vars


(***************************************************************************)
(* ClassicPRM.                                                             *)
(***************************************************************************)
\* ICollision::CheckCollision(params, robot, a, b, OPEN): TRUE when the
\* segment from a to b collides.  The obstacles are walls between
\* neighbouring coordinates: wall w stands between w and w + 1.
CheckCollision(W, a, b) ==
    \E w \in W : (a[1] <= w /\ w < b[1]) \/ (b[1] <= w /\ w < a[1])

\* the gate in front of every addEdge of the planner
collisionFree_unchecked(W, a, b) == TRUE
collisionFree(W, a, b) == ~CheckCollision(W, a, b)

\* buildRoadMap, the loop over the neighbours of the sample at vs
RECURSIVE connectSample(_, _, _, _, _, _)
connectSample(G, W, conf, vs, neighbors, i) ==
    IF i > Len(neighbors) THEN G
    ELSE IF collisionFree(W, conf, neighbors[i].nconfig)
         THEN connectSample(addEdge(G, vs, neighbors[i].vertex).g, W, conf, vs,
                            neighbors, i + 1)
         ELSE connectSample(G, W, conf, vs, neighbors, i + 1)

\* buildRoadMap, the loop over vv_cs_samples from the k-th sample on
RECURSIVE connectSamples(_, _, _, _)
connectSamples(G, W, samples, k) ==
    IF k > Len(samples) THEN G
    ELSE LET vs == newVertex(G)
         IN  With(addNode(G, samples[k]), LAMBDA G1 :
             With(findNN(G1, vs, <<>>), LAMBDA nn :
               IF nn.ret = 0 THEN connectSamples(G1, W, samples, k + 1)
               ELSE connectSamples(connectSample(G1, W, samples[k], vs, nn.out, 1),
                                   W, samples, k + 1)))

\* what one call of p_sampler->GenSingleSample yields
Drawn(conf) == [ok |-> TRUE, q |-> conf]
NoDraw == [ok |-> FALSE, q |-> <<>>]

\* buildRoadMap, the sampling loop: while (i < i_nnodes), the k-th sampler
\* call next; a sample drawn is pushed and counted, a failed call is not.
RECURSIVE sampleLoop(_, _, _, _, _)
sampleLoop(draws, k, i, n, samples) ==
    IF ~(i < n) \/ k > Len(draws) THEN samples
    ELSE IF draws[k].ok
         THEN sampleLoop(draws, k + 1, i + 1, n, Append(samples, draws[k].q))
         ELSE sampleLoop(draws, k + 1, i, n, samples)

\* buildRoadMap: the sampler's i_nnodes new samples are pushed onto
\* vv_cs_samples, then every sample of vv_cs_samples is inserted.
\* [g, samples]
buildRoadMap(G, W, old_samples, new_samples) ==
    LET all == old_samples \o new_samples
    IN  [g |-> connectSamples(G, W, all, 1), samples |-> all]

\* n_start = nn (n_goal = nn): of the neighbour `it` and nn = getNode(st),
\* the node recorded for the search
designated_neighbor(it, nn) == it
designated(it, nn) == nn

\* addStartConfig / addGoalConfig, the loop over nearsamples:
\* [g, n, added]
RECURSIVE connectFirst(_, _, _, _, _, _)
connectFirst(G, W, nearsamples, i, st, n_old) ==
    IF i > Len(nearsamples) THEN [g |-> G, n |-> n_old, added |-> FALSE]
    ELSE LET it == nearsamples[i]
         IN  With(getNode(G, st), LAMBDA nn :
               IF collisionFree(W, it.nconfig, nn.nconfig)
               THEN With(addEdge(G, it.vertex, st), LAMBDA r :
                      IF r.ret THEN [g |-> r.g, n |-> designated(it, nn), added |-> TRUE]
                      ELSE connectFirst(r.g, W, nearsamples, i + 1, st, n_old))
               ELSE connectFirst(G, W, nearsamples, i + 1, st, n_old))

\* addStartConfig: [ret, g, n, added]; n is n_start after the call
addStartConfig(G, W, params, robot, n_old) ==
    IF Len(params.vinitialconfig) # robot
    THEN [ret |-> FALSE, g |-> G, n |-> n_old, added |-> FALSE]
    ELSE LET st == newVertex(G)
         IN  With(addNode(G, params.vinitialconfig), LAMBDA G1 :
             With(findNN(G1, st, <<>>), LAMBDA nn :
               IF nn.ret = 0
               THEN [ret |-> FALSE, g |-> G1, n |-> n_old, added |-> FALSE]
               ELSE With(connectFirst(G1, W, nn.out, 1, st, n_old), LAMBDA c :
                      [ret |-> ~(c.n.vertex > 2 * Len(c.g.node_list)),
                       g |-> c.g, n |-> c.n, added |-> c.added])))

\* addGoalConfig: [ret, g, n, added]; n is n_goal after the call
addGoalConfig(G, W, params, robot, n_old) ==
    IF Len(params.vgoalconfig) # robot
    THEN [ret |-> FALSE, g |-> G, n |-> n_old, added |-> FALSE]
    ELSE LET st == newVertex(G)
         IN  With(addNode(G, params.vgoalconfig), LAMBDA G1 :
             With(findNN(G1, st, <<>>), LAMBDA nn :
               IF nn.ret = 0
               THEN [ret |-> FALSE, g |-> G1, n |-> n_old, added |-> FALSE]
               ELSE With(connectFirst(G1, W, nn.out, 1, st, n_old), LAMBDA c :
                      [ret |-> ~(c.n.vertex > 2 * Len(c.g.node_list)),
                       g |-> c.g, n |-> c.n, added |-> c.added])))

\* findPath: [ret, path, searches, asFound, asPath, oob]; searches lists the
\* searches run, in order
findPath(G, ns, ng, path, junk) ==
    With(findPathAS(G, ns, ng, path, junk), LAMBDA as :
      IF as.ret
      THEN [ret |-> TRUE, path |-> as.path, searches |-> <<"AS">>,
            asFound |-> as.found, asPath |-> as.path, oob |-> as.oob]
      ELSE With(findPathDK(G, ns, ng, as.path), LAMBDA dk :
             [ret |-> dk.ret, path |-> dk.path, searches |-> <<"AS", "DK">>,
              asFound |-> as.found, asPath |-> as.path, oob |-> as.oob]))

\* the point made of a path node: pt.q[i] = nconfig[i] for i < GetDOF().
\* A node without configuration is read past its end (0 stands for what
\* that yields).
TPoint(node, dof) ==
    [i \in 1..dof |-> IF i <= Len(node.nconfig) THEN node.nconfig[i] ELSE 0]

\* PlanPath from addStartConfig on: the members after the call, the value
\* returned, the points appended to the trajectory.
planPath(G, W, params, robot, ns, ng, lp, junk) ==
    With(addStartConfig(G, W, params, robot, ns), LAMBDA s :
      IF ~s.ret
      THEN [g |-> s.g, n_start |-> s.n, n_goal |-> ng, l_pathnodes |-> lp,
            oob |-> FALSE, badpoint |-> FALSE,
            plan |-> Plan("PlanPath", FALSE, <<>>, <<>>, FALSE, <<>>, s.added, FALSE)]
      ELSE With(addGoalConfig(s.g, W, params, robot, ng), LAMBDA e :
        IF ~e.ret
        THEN [g |-> e.g, n_start |-> s.n, n_goal |-> e.n, l_pathnodes |-> lp,
              oob |-> FALSE, badpoint |-> FALSE,
              plan |-> Plan("PlanPath", FALSE, <<>>, <<>>, FALSE, <<>>,
                            s.added, e.added)]
        ELSE With(findPath(e.g, s.n, e.n, lp, junk), LAMBDA r :
               [g |-> e.g, n_start |-> s.n, n_goal |-> e.n,
                l_pathnodes |-> r.path, oob |-> r.oob,
                badpoint |-> r.ret /\ \E i \in 1..Len(r.path) :
                                 Len(r.path[i].nconfig) < robot,
                plan |-> Plan("PlanPath", r.ret,
                              IF r.ret
                              THEN [i \in 1..Len(r.path) |-> TPoint(r.path[i], robot)]
                              ELSE <<>>,
                              r.searches, r.asFound, r.asPath,
                              s.added, e.added)])))

(***************************************************************************)
(* The planner object: constructed, then any sequence of InitPlan and      *)
(* PlanPath calls with the caller's parameters.  n_start and n_goal are    *)
(* default-constructed s_nodes, whose vertex holds whatever the memory     *)
(* held.                                                                   *)
(***************************************************************************)
MaxBudget == 2        \* largest node budget i_nnodes
MaxSamples == 2       \* InitPlan is called while vv_cs_samples stays within this
MaxRoadmapNodes == 5  \* PlanPath is called while the roadmap stays within this

GarbageVertices == {0, IntMax}
Walls == SUBSET (0..(MaxPos - 1))

Params(n, t, qi, qg) ==
    [set |-> TRUE, i_nnodes |-> n, f_neigh_thresh |-> t,
     vinitialconfig |-> qi, vgoalconfig |-> qg]

InitPRM ==
    /\ g_roadmap = NoGraph
    /\ call = NoCall
    /\ crashed = FALSE
    /\ walls \in Walls
    /\ \E dof \in RobotDOFs :
         pparams \in {Params(n, t, qi, qg) : n \in 1..MaxBudget, t \in 1..MaxThresh,
                                             qi \in Configs(dof), qg \in Configs(dof)}
    /\ p_parameters = NoParams
    /\ p_robot = 0
    /\ vv_cs_samples = <<>>
    /\ l_pathnodes = <<>>
    /\ n_start \in {s_node(<<>>, v) : v \in GarbageVertices}
    /\ n_goal \in {s_node(<<>>, v) : v \in GarbageVertices}
    /\ plan = NoPlan
    /\ TreeIdle

MaxSamplerFails == 1  \* failed sampler calls in one buildRoadMap

RECURSIVE Count(_, _, _)
Count(draws, k, ok) ==
    IF k > Len(draws) THEN 0
    ELSE (IF draws[k].ok = ok THEN 1 ELSE 0) + Count(draws, k + 1, ok)

\* the runs of sampler calls that let buildRoadMap return: n samples drawn,
\* the last call one of them, failed calls anywhere before
Draws(dof, n) ==
    {d \in UNION {[1..k -> {Drawn(q) : q \in Configs(dof)} \cup {NoDraw}] :
                     k \in n..(n + MaxSamplerFails)} :
        Count(d, 1, TRUE) = n /\ d[Len(d)].ok}

\* InitPlan(pbase, pparams); the sampler's calls yield `draws`
InitPlan(pbase, draws) ==
    /\ ~crashed
    /\ Len(vv_cs_samples) + pparams.i_nnodes <= MaxSamples
    /\ LET samples == sampleLoop(draws, 1, 0, pparams.i_nnodes, <<>>)
           b == buildRoadMap(SpatialGraphSized(pparams.i_nnodes, pparams.f_neigh_thresh),
                             walls, vv_cs_samples, samples)
       IN  /\ g_roadmap' = b.g
           /\ vv_cs_samples' = b.samples
    /\ p_parameters' = pparams
    /\ p_robot' = pbase
    /\ plan' = Plan("InitPlan", TRUE, <<>>, <<>>, FALSE, <<>>, FALSE, FALSE)
    /\ UNCHANGED <<call, crashed, walls, pparams, l_pathnodes, n_start, n_goal,
                   tvars>>

PlanPathUninitialized ==
    /\ ~crashed
    /\ ~p_parameters.set
    /\ plan' = Plan("PlanPath", FALSE, <<>>, <<>>, FALSE, <<>>, FALSE, FALSE)
    /\ UNCHANGED <<g_roadmap, call, crashed, walls, pparams, p_parameters, p_robot,
                   vv_cs_samples, l_pathnodes, n_start, n_goal, tvars>>

PlanPathReturns(r) ==
    /\ g_roadmap' = r.g
    /\ n_start' = r.n_start
    /\ n_goal' = r.n_goal
    /\ l_pathnodes' = r.l_pathnodes
    /\ plan' = r.plan
    /\ crashed' = FALSE

\* the call dies in the search (heuristic read outside node_map) or while
\* emitting a node that has no configuration
PlanPathDies(r) ==
    /\ g_roadmap' = r.g
    /\ n_start' = r.n_start
    /\ n_goal' = r.n_goal
    /\ l_pathnodes' = l_pathnodes
    /\ plan' = Plan("PlanPath", FALSE, <<>>, <<>>, FALSE, <<>>,
                    r.plan.startEdge, r.plan.goalEdge)
    /\ crashed' = TRUE

PlanPath ==
    /\ ~crashed
    /\ p_parameters.set
    /\ Len(g_roadmap.node_list) + 2 <= MaxRoadmapNodes
    /\ \E r0 \in {planPath(g_roadmap, walls, p_parameters, p_robot, n_start, n_goal,
                            l_pathnodes, NoJunk(g_roadmap))} :
         IF ~r0.oob
         THEN \/ PlanPathReturns(r0)
              \/ r0.badpoint /\ PlanPathDies(r0)
         ELSE \/ PlanPathDies(r0)
              \/ \E junk \in Junk(r0.g, r0.n_start) :
                   \E r \in {planPath(g_roadmap, walls, p_parameters, p_robot,
                                      n_start, n_goal, l_pathnodes, junk)} :
                     PlanPathReturns(r)
    /\ UNCHANGED <<call, walls, pparams, p_parameters, p_robot, vv_cs_samples,
                   tvars>>

NextPRM ==
    \/ \E dof \in RobotDOFs : \E draws \in Draws(dof, pparams.i_nnodes) :
           InitPlan(dof, draws)
    \/ PlanPathUninitialized
    \/ PlanPath

SpecPRM == InitPRM /\ [][NextPRM]_vars

\* The same planner, handed start and goal configurations of any length:
\* too short and too long ones besides those of the robot's DOF count.
AnyConfigs(dof) == Configs(dof) \cup {<<>>, [i \in 1..(dof + 1) |-> 0]}

InitPRMAnyConfig ==
    /\ g_roadmap = NoGraph
    /\ call = NoCall
    /\ crashed = FALSE
    /\ walls \in Walls
    /\ \E dof \in RobotDOFs :
         pparams \in {Params(n, t, qi, qg) : n \in 1..MaxBudget, t \in 1..MaxThresh,
                                             qi \in AnyConfigs(dof), qg \in AnyConfigs(dof)}
    /\ p_parameters = NoParams
    /\ p_robot = 0
    /\ vv_cs_samples = <<>>
    /\ l_pathnodes = <<>>
    /\ n_start \in {s_node(<<>>, v) : v \in GarbageVertices}
    /\ n_goal \in {s_node(<<>>, v) : v \in GarbageVertices}
    /\ plan = NoPlan
    /\ TreeIdle

SpecPRMAnyConfig == InitPRMAnyConfig /\ [][NextPRM]_vars

(***************************************************************************)
(* The SpatialTree under test: constructed, its distance function and its  *)
(* step length assigned by the owner, cReset with the owner's DOF count    *)
(* (or with none), then any sequence of AddNode and Extend calls.  The     *)
(* configurations handed to the tree are whole numbers (multiples of       *)
(* Scale) and so are the step lengths: every product and quotient that     *)
(* Extend forms is then exact in the fixed-point coordinates.              *)
(***************************************************************************)
MaxTreePos == 11      \* the farthest whole number handed to the tree
MaxTreeNodes == 2     \* calls are made while the tree holds at most this many nodes
MaxExtendSteps == 13  \* iterations of Extend's loop followed before the call counts as not returning
MaxReach == 256       \* the obstacles and the nodes lie between -MaxReach and MaxReach

\* the whole numbers handed to the tree as configurations
TreePositions == {0, 1, 2, 4, MaxTreePos}
TreeCoords == {Scale * k : k \in TreePositions}
TreeConfigs(dof) == [1..dof -> TreeCoords]
StepLengths == {Scale, 10 * Scale}      \* _fStepLength 1.0 and 10.0

\* the environments of the tree: free, an obstacle in the middle of the
\* range, obstacles everywhere
Blocked == (0 - MaxReach)..MaxReach
TreeWalls == {{}, {3 * Scale}, Blocked}

\* the constraint functions of the parameters: none, one that accepts every
\* configuration as it is, one that refuses some configurations and
\* projects some others back onto the node they were stepped from
Constraints ==
    {NoConstraint,
     [set |-> TRUE, refuse |-> {}, pin |-> {}],
     [set |-> TRUE, refuse |-> {3 * Scale, 16 * Scale},
      pin |-> {9 * Scale, 20 * Scale}]}

\* params->_constraintfn(prev, new, 0): FALSE when new is refused, else
\* TRUE with new possibly moved
constraint(C, prev, new) ==
    IF new[1] \in C.refuse THEN [ok |-> FALSE, q |-> new]
    ELSE IF new[1] \in C.pin THEN [ok |-> TRUE, q |-> prev]
    ELSE [ok |-> TRUE, q |-> new]

t_node(parent, q) == [parent |-> parent, q |-> q]

\* SpatialTree(), then the owner's assignment of _fStepLength
SpatialTree(step) ==
    [_nodes |-> <<>>, _fStepLength |-> step, _dof |-> 0, built |-> TRUE]

cReset(T, dof) ==
    [T EXCEPT !._nodes = <<>>, !._dof = IF dof > 0 THEN dof ELSE @]

\* SpatialTree::AddNode; the index it returns is the size before the call
treeAddNode(T, parent, config) ==
    [T EXCEPT !._nodes = Append(@, t_node(parent, config))]

\* GetNN, the scan from index i on (indices count from 0 as in the code)
RECURSIVE nnScan(_, _, _, _, _)
nnScan(T, q, i, ibest, fbest) ==
    IF i >= Len(T._nodes) THEN ibest
    ELSE With(Eval(q, T._nodes[i + 1].q), LAMBDA f :
           IF ibest < 0 \/ f < fbest
           THEN nnScan(T, q, i + 1, i, f)
           ELSE nnScan(T, q, i + 1, ibest, fbest))

GetNN(T, q) == IF Len(T._nodes) = 0 THEN -1 ELSE nnScan(T, q, 0, -1, 0)

\* fdist <= dReal(0.1) * _fStepLength
nearEnough_never(fdist, step) == FALSE
nearEnough(fdist, step) == 10 * fdist <= step

\* _distmetricfn(pnode->q, _vNewConfig) <= dReal(0.01) * _fStepLength
tooShort(fdist, step) == 100 * fdist <= step

\* _vNewConfig of one iteration: the target, less pnode->q (_diffstatefn,
\* plain subtraction), then for the first _dof coordinates
\* pnode->q[i] + _vNewConfig[i] * fdist, where fdist is the quotient
\* _fStepLength / fdist beyond one step length and the distance itself
\* within it
newConfig(T, target, q, fdist) ==
    LET num == IF fdist > T._fStepLength THEN T._fStepLength ELSE fdist
        den == IF fdist > T._fStepLength THEN fdist ELSE Scale
    IN  [i \in 1..Len(target) |->
            IF i <= T._dof THEN q[i] + ((target[i] - q[i]) * num) \div den
            ELSE target[i] - q[i]]

\* return ET_Sucess if bHasAdded, else ET_Failed
leave_failed(r) == [r EXCEPT !.ret = ET_Failed, !.done = TRUE]
leave_sucess(r) == [r EXCEPT !.ret = ET_Sucess, !.done = TRUE]
leave(r) ==
    [r EXCEPT !.ret = IF r.bHasAdded THEN ET_Sucess ELSE ET_Failed,
              !.done = TRUE]

asked(a, b, hit) == [a |-> a, b |-> b, hit |-> hit]

\* if( bOneStep ) return ET_Connected, after the AddNode of an iteration
oneStep_never(bOneStep) == FALSE
oneStep(bOneStep) == bOneStep

\* Extend, one iteration of the loop while(1); r holds the tree, lastindex,
\* bHasAdded and the record of the calls made so far, r.done says that the
\* iteration returned
extendStep(W, C, target, bOneStep, r) ==
    LET q == r.tree._nodes[r.lastindex + 1].q
        step == r.tree._fStepLength
    IN  With(Eval(target, q), LAMBDA fdist :
        IF fdist <= step /\ nearEnough(fdist, step)
        THEN [r EXCEPT !.ret = ET_Connected, !.done = TRUE]
        ELSE With(newConfig(r.tree, target, q, fdist), LAMBDA new :
             With(IF C.set THEN constraint(C, q, new)
                  ELSE [ok |-> TRUE, q |-> new], LAMBDA c :
             With(IF C.set THEN [r EXCEPT !.consulted = @ + 1] ELSE r, LAMBDA r1 :
               IF ~c.ok THEN leave(r1)
               ELSE IF C.set /\ tooShort(Eval(q, c.q), step) THEN leave(r1)
               ELSE IF CheckCollision(W, q, c.q)
               THEN leave([r1 EXCEPT !.asked = Append(@, asked(q, c.q, TRUE))])
               ELSE [r1 EXCEPT !.asked = Append(@, asked(q, c.q, FALSE)),
                               !.tree = treeAddNode(@, r.lastindex, c.q),
                               !.lastindex = Len(r.tree._nodes),
                               !.bHasAdded = TRUE,
                               !.ret = IF oneStep(bOneStep) THEN ET_Connected ELSE @,
                               !.done = oneStep(bOneStep)]))))

\* Extend, the loop while(1), followed for `fuel` iterations
RECURSIVE extendLoop(_, _, _, _, _, _)
extendLoop(W, C, target, bOneStep, r, fuel) ==
    IF r.done THEN r
    ELSE IF fuel = 0 THEN [r EXCEPT !.returned = FALSE]
    ELSE With(extendStep(W, C, target, bOneStep, r), LAMBDA r1 :
           extendLoop(W, C, target, bOneStep, r1, fuel - 1))

\* Extend(pTargetConfig, lastindex, bOneStep) in the environment W with the
\* constraint function C
Extend(T, W, C, target, bOneStep) ==
    With([tree |-> T, lastindex |-> GetNN(T, target), bHasAdded |-> FALSE,
          asked |-> <<>>, consulted |-> 0, ret |-> ET_Failed,
          done |-> FALSE, returned |-> TRUE], LAMBDA r :
      IF r.lastindex < 0 THEN r
      ELSE extendLoop(W, C, target, bOneStep, r, MaxExtendSteps))

InitTree ==
    /\ g_roadmap = NoGraph
    /\ call = NoCall
    /\ crashed = FALSE
    /\ walls \in TreeWalls
    /\ pparams = NoParams
    /\ p_parameters = NoParams
    /\ p_robot = 0
    /\ vv_cs_samples = <<>>
    /\ l_pathnodes = <<>>
    /\ n_start = s_node(<<>>, 0)
    /\ n_goal = s_node(<<>>, 0)
    /\ plan = NoPlan
    /\ tree \in {cReset(SpatialTree(step), dof) :
                    step \in StepLengths, dof \in {0} \cup RobotDOFs}
    /\ ext = NoExt
    /\ constraintfn \in Constraints
    /\ SBLIdle
    /\ MutexIdle

\* the parents a caller names: the planner's 0 and 1000 for a first node,
\* a node of the tree for a later one
Parents(T) ==
    IF T._nodes = <<>> THEN {0, 1000} ELSE 0..(Len(T._nodes) - 1)

CallAddNode(parent, config) ==
    /\ ext.returned
    /\ Len(tree._nodes) < MaxTreeNodes
    /\ tree' = treeAddNode(tree, parent, config)
    /\ ext' = Ext("AddNode", config, FALSE, Len(tree._nodes), Len(tree._nodes),
                  Len(tree._nodes), 1, <<>>, 0, TRUE)
    /\ UNCHANGED <<g_roadmap, call, crashed, walls, pvars, constraintfn,
                   svars, mvars>>

CallExtend(target, bOneStep) ==
    /\ ext.returned
    /\ Len(tree._nodes) <= MaxTreeNodes
    /\ \E r \in {Extend(tree, walls, constraintfn, target, bOneStep)} :
         /\ tree' = r.tree
         /\ ext' = Ext("Extend", target, bOneStep, r.ret, r.lastindex,
                       Len(tree._nodes), Len(r.tree._nodes) - Len(tree._nodes),
                       r.asked, r.consulted, r.returned)
    /\ UNCHANGED <<g_roadmap, call, crashed, walls, pvars, constraintfn,
                   svars, mvars>>

NextTree ==
    \/ \E parent \in Parents(tree) : \E config \in TreeConfigs(1) :
         CallAddNode(parent, config)
    \/ \E target \in TreeConfigs(1) : \E bOneStep \in BOOLEAN :
         CallExtend(target, bOneStep)

SpecTree == InitTree /\ [][NextTree]_vars

(***************************************************************************)
(* SBLPlanner: two SpatialTrees grown toward each other.                   *)
(***************************************************************************)
MaxSBLRounds == 2     \* buildTrees rounds followed within one PlanPath
MaxSBLCalls == 2      \* PlanPath calls followed
MaxSBLInits == 2      \* InitPlan calls followed

SBLPositions == {0, 1, 4}
SBLConfigs(dof) == [1..dof -> {Scale * k : k \in SBLPositions}]

\* The SpatialTree InitPlan creates.  As constructed it has no distance
\* metric and no planner (wired = FALSE); wired = TRUE is the tree the
\* planner's contract describes: metric and planner supplied, the robot's
\* DOF count and the parameters' step length.
sblTree(name, wired, step, dof) ==
    [_nodes |-> <<>>, _fStepLength |-> step,
     _dof |-> IF wired THEN dof ELSE 0, built |-> TRUE,
     name |-> name, wired |-> wired]

\* GetConfig(inode): _nodes.at(inode) throws outside the tree
GetConfig(T, inode) ==
    IF inode >= 0 /\ inode < Len(T._nodes)
    THEN [ok |-> TRUE, q |-> T._nodes[inode + 1].q]
    ELSE [ok |-> FALSE, q |-> <<>>]

\* Extend as buildTrees calls it (bOneStep left at its default): on a
\* non-empty tree without a distance metric the first GetNN throws
sblExtend(T, W, C, target) ==
    IF T._nodes # <<>> /\ ~T.wired
    THEN [threw |-> TRUE, tree |-> T, ret |-> ET_Failed, lastindex |-> 0,
          returned |-> FALSE]
    ELSE With(Extend(T, W, C, target, FALSE), LAMBDA e :
           [threw |-> FALSE, tree |-> e.tree, ret |-> e.ret,
            lastindex |-> e.lastindex, returned |-> e.returned])

\* what one pass through the loop body leaves behind: the two tree
\* pointers, b_connected, the round's record, and how the pass ended
\* ("next": back to the loop test, "threw", "stuck": an Extend that does
\* not return)
Pass(ts, tg, conn, round, end) ==
    [t_start |-> ts, t_goal |-> tg, b_connected |-> conn, round |-> round,
     end |-> end]

connects_always(etg) == TRUE
connects(etg) == etg = ET_Connected

\* swap(t_start, t_goal), line 97
swap(ts, tg) == <<tg, ts>>

\* lines 83-97: the second tree is extended toward the first tree's
\* frontier node, then the pointers are swapped
secondExtend(ts, tg, conn, W, C, goal_id, ets, i_start_index) ==
    With(GetConfig(tg, goal_id), LAMBDA c :
      IF ~c.ok THEN Pass(ts, tg, conn, Round("threw", ets, 0, FALSE, <<>>), "threw")
      ELSE With(sblExtend(tg, W, C, c.q), LAMBDA y0 :
        IF y0.threw
        THEN Pass(ts, tg, conn, Round("threw", ets, 0, FALSE, <<>>), "threw")
        ELSE IF ~y0.returned
        THEN Pass(ts, y0.tree, conn, Round("stuck", ets, 0, TRUE, <<>>), "stuck")
        ELSE With(GetConfig(ts, i_start_index).q, LAMBDA f :
          With(sblExtend(y0.tree, W, C, f), LAMBDA y1 :
            IF ~y1.returned
            THEN Pass(ts, y1.tree, conn, Round("stuck", ets, 0, TRUE, f), "stuck")
            ELSE With(swap(ts, y1.tree), LAMBDA p :
                   Pass(p[1], p[2], conn \/ connects(y1.ret),
                        Round("both", ets, y1.ret, TRUE, f), "next"))))))

\* one pass through the body of while(!b_connected), lines 66-97
buildRound(ts, tg, conn, W, C, start_id, goal_id, draw) ==
    IF ~draw.ok
    THEN With(swap(ts, tg), LAMBDA p :
           Pass(p[1], p[2], conn, Round("nosample", 0, 0, FALSE, <<>>), "next"))
    ELSE With(GetConfig(ts, start_id), LAMBDA c :
      IF ~c.ok THEN Pass(ts, tg, conn, Round("threw", 0, 0, FALSE, <<>>), "threw")
      ELSE With(sblExtend(ts, W, C, c.q), LAMBDA x0 :
        IF x0.threw
        THEN Pass(ts, tg, conn, Round("threw", 0, 0, FALSE, <<>>), "threw")
        ELSE IF ~x0.returned
        THEN Pass(x0.tree, tg, conn, Round("stuck", 0, 0, FALSE, <<>>), "stuck")
        ELSE With(sblExtend(x0.tree, W, C, draw.q), LAMBDA x1 :
          IF ~x1.returned
          THEN Pass(x1.tree, tg, conn, Round("stuck", 0, 0, FALSE, <<>>), "stuck")
          ELSE IF x1.ret = ET_Failed
          THEN Pass(x1.tree, tg, conn,
                    Round("failed", ET_Failed, 0, FALSE, <<>>), "next")
          ELSE secondExtend(x1.tree, tg, conn, W, C, goal_id, x1.ret,
                            x1.lastindex))))

InitSBL ==
    /\ g_roadmap = NoGraph
    /\ call = NoCall
    /\ crashed = FALSE
    /\ walls \in TreeWalls
    /\ pparams = NoParams
    /\ p_parameters = NoParams
    /\ p_robot = 0
    /\ vv_cs_samples = <<>>
    /\ l_pathnodes = <<>>
    /\ n_start = s_node(<<>>, 0)
    /\ n_goal = s_node(<<>>, 0)
    /\ plan = NoPlan
    /\ tree = NoTree
    /\ ext = NoExt
    /\ constraintfn = NoConstraint
    /\ t_start = NoTree
    /\ t_goal = NoTree
    /\ b_connected = FALSE
    /\ sbl \in {SBL("idle", wired, step, 0, 0, 0, 0, 0, NoRound, "none") :
                   wired \in BOOLEAN, step \in StepLengths}
    /\ MutexIdle

\* SBLPlanner::InitPlan
SBLInitPlan(pbase, qi, qg) ==
    /\ sbl.pc = "idle"
    /\ sbl.inits < MaxSBLInits
    /\ p_parameters' = Params(1, 1, qi, qg)
    /\ p_robot' = pbase
    /\ t_goal' = sblTree("goal", sbl.wired, sbl.step, pbase)
    /\ t_start' = sblTree("start", sbl.wired, sbl.step, pbase)
    /\ sbl' = [sbl EXCEPT !.inits = @ + 1]
    /\ plan' = Plan("InitPlan", TRUE, <<>>, <<>>, FALSE, <<>>, FALSE, FALSE)
    /\ UNCHANGED <<g_roadmap, call, crashed, walls, pparams, vv_cs_samples,
                   l_pathnodes, n_start, n_goal, tree, ext, constraintfn,
                   b_connected, mvars>>

\* SBLPlanner::PlanPath before InitPlan, lines 155-159
SBLPlanPathUninitialized ==
    /\ sbl.pc = "idle"
    /\ sbl.calls < MaxSBLCalls
    /\ ~p_parameters.set
    /\ sbl' = [sbl EXCEPT !.calls = @ + 1, !.rounds = 0, !.last = NoRound,
                          !.outcome = "false"]
    /\ plan' = Plan("PlanPath", FALSE, <<>>, <<>>, FALSE, <<>>, FALSE, FALSE)
    /\ UNCHANGED <<g_roadmap, call, crashed, walls, pparams, p_parameters,
                   p_robot, vv_cs_samples, l_pathnodes, n_start, n_goal,
                   tree, ext, constraintfn, t_start, t_goal, b_connected,
                   mvars>>

\* SBLPlanner::PlanPath up to the call of buildTrees, lines 161-172
SBLPlanPathEnter ==
    /\ sbl.pc = "idle"
    /\ sbl.calls < MaxSBLCalls
    /\ p_parameters.set
    /\ t_start' = treeAddNode(t_start, 0, p_parameters.vinitialconfig)
    /\ t_goal' = treeAddNode(t_goal, 1000, p_parameters.vgoalconfig)
    /\ sbl' = [sbl EXCEPT !.pc = "loop", !.start_id = Len(t_start._nodes),
                          !.goal_id = Len(t_goal._nodes), !.calls = @ + 1,
                          !.rounds = 0, !.last = NoRound, !.outcome = "none"]
    /\ plan' = Plan("PlanPath", FALSE, <<>>, <<>>, FALSE, <<>>, FALSE, FALSE)
    /\ UNCHANGED <<g_roadmap, call, crashed, walls, pparams, p_parameters,
                   p_robot, vv_cs_samples, l_pathnodes, n_start, n_goal,
                   tree, ext, constraintfn, b_connected, mvars>>

\* one pass through the loop of buildTrees with the sampler's answer draw
SBLRound(draw) ==
    /\ sbl.pc = "loop"
    /\ ~b_connected
    /\ sbl.rounds < MaxSBLRounds
    /\ \E r \in {buildRound(t_start, t_goal, b_connected, walls, constraintfn,
                            sbl.start_id, sbl.goal_id, draw)} :
         /\ t_start' = r.t_start
         /\ t_goal' = r.t_goal
         /\ b_connected' = r.b_connected
         /\ sbl' = [sbl EXCEPT
                      !.pc = IF r.end = "next" THEN "loop"
                             ELSE IF r.end = "threw" THEN "idle" ELSE "stuck",
                      !.rounds = @ + 1,
                      !.last = r.round,
                      !.outcome = IF r.end = "next" THEN "none" ELSE r.end]
    /\ UNCHANGED <<g_roadmap, call, crashed, walls, pvars, tree, ext,
                   constraintfn, mvars>>

\* the loop test fails: buildTrees returns and PlanPath emits l_pathnodes,
\* lines 178-190
SBLPlanPathReturn ==
    /\ sbl.pc = "loop"
    /\ b_connected
    /\ sbl' = [sbl EXCEPT !.pc = "idle", !.outcome = "true"]
    /\ plan' = Plan("PlanPath", TRUE,
                    [i \in 1..Len(l_pathnodes) |-> l_pathnodes[i].nconfig],
                    <<>>, FALSE, <<>>, FALSE, FALSE)
    /\ UNCHANGED <<g_roadmap, call, crashed, walls, pparams, p_parameters,
                   p_robot, vv_cs_samples, l_pathnodes, n_start, n_goal,
                   tree, ext, constraintfn, t_start, t_goal, b_connected,
                   mvars>>

NextSBL ==
    \/ \E pbase \in RobotDOFs : \E qi \in SBLConfigs(pbase) :
         \E qg \in SBLConfigs(pbase) : SBLInitPlan(pbase, qi, qg)
    \/ SBLPlanPathUninitialized
    \/ SBLPlanPathEnter
    \/ \E draw \in {NoDraw} \cup {Drawn(q) : q \in SBLConfigs(p_robot)} :
         SBLRound(draw)
    \/ SBLPlanPathReturn

SpecSBL == InitSBL /\ [][NextSBL]_vars

(***************************************************************************)
(* The environment mutex: two callers of the planners' entry points.       *)
(***************************************************************************)
Callers == {1, 2}
Planners == {"ClassicPRM", "SBLPlanner"}
Entries == {"InitPlan", "PlanPath"}

\* The statements of an entry point in the order of the code, by what they
\* touch.  InitPlan: the scoped_lock, the write of p_parameters, the reset
\* of the roadmap or of the two trees, buildRoadMap or the second tree.
\* PlanPath: the test of p_parameters, the scoped_lock, addStartConfig /
\* AddNode, addGoalConfig / AddNode, findPath / buildTrees.
Program(planner, entry) ==
    IF entry = "InitPlan"
    THEN <<"lock", "params", "access", "access", "return">>
    ELSE <<"check", "lock", "access", "access", "access", "return">>

\* a caller: the entry point it is in, the statement it stands at (0
\* outside a call), the roadmap or tree accesses its call has made
Thread(planner, entry, pc, touched) ==
    [planner |-> planner, entry |-> entry, pc |-> pc, touched |-> touched]

NoThread == Thread("none", "none", 0, 0)

\* the statement caller c stands at
Stmt(c) ==
    IF threads[c].pc = 0 THEN "none"
    ELSE Program(threads[c].planner, threads[c].entry)[threads[c].pc]

Advance(c) == [threads EXCEPT ![c].pc = @ + 1]

\* the parameters InitPlan copies; their values play no part here
SomeParams == Params(1, 1, <<0>>, <<0>>)

\* scoped_lock's constructor blocks until the mutex is free
free_always(m) == TRUE
free(m) == m = 0

InitMutex ==
    /\ g_roadmap = NoGraph
    /\ call = NoCall
    /\ crashed = FALSE
    /\ walls = {}
    /\ pparams = NoParams
    /\ p_parameters = [pl \in Planners |-> NoParams]
    /\ p_robot = 0
    /\ vv_cs_samples = <<>>
    /\ l_pathnodes = <<>>
    /\ n_start = s_node(<<>>, 0)
    /\ n_goal = s_node(<<>>, 0)
    /\ plan = NoPlan
    /\ tree = NoTree
    /\ ext = NoExt
    /\ constraintfn = NoConstraint
    /\ SBLIdle
    /\ threads = [c \in Callers |-> NoThread]
    /\ mutex = 0

\* everything but the callers, the mutex and the planners' p_parameters
restvars == <<g_roadmap, call, crashed, walls, pparams, p_robot,
              vv_cs_samples, l_pathnodes, n_start, n_goal, plan, tree, ext,
              constraintfn, svars>>

\* caller c invokes an entry point of a planner
Invoke(c, planner, entry) ==
    /\ threads[c].pc = 0
    /\ threads' = [threads EXCEPT ![c] = Thread(planner, entry, 1, 0)]
    /\ UNCHANGED <<mutex, p_parameters, restvars>>

\* another caller stands at InitPlan's write of this planner's p_parameters
WriteInProgress(c) ==
    \E d \in Callers \ {c} :
       /\ Stmt(d) = "params"
       /\ threads[d].planner = threads[c].planner

\* if (!p_parameters) return false, before the lock; a read that races
\* with InitPlan's write may see either value
Check(c) ==
    /\ Stmt(c) = "check"
    /\ \E seen \in IF WriteInProgress(c) THEN BOOLEAN
                   ELSE {p_parameters[threads[c].planner].set} :
         threads' = IF seen THEN Advance(c)
                    ELSE [threads EXCEPT ![c] = NoThread]
    /\ UNCHANGED <<mutex, p_parameters, restvars>>

\* EnvironmentMutex::scoped_lock lock(GetEnv()->GetMutex())
Lock(c) ==
    /\ Stmt(c) = "lock"
    /\ free(mutex)
    /\ mutex' = c
    /\ threads' = Advance(c)
    /\ UNCHANGED <<p_parameters, restvars>>

\* p_parameters.reset(new PRMParams()); p_parameters->copy(pparams)
SetParams(c) ==
    /\ Stmt(c) = "params"
    /\ p_parameters' = [p_parameters EXCEPT ![threads[c].planner] = SomeParams]
    /\ threads' = Advance(c)
    /\ UNCHANGED <<mutex, restvars>>

\* one read or write of the roadmap or of the trees
Access(c) ==
    /\ Stmt(c) = "access"
    /\ threads' = [threads EXCEPT ![c].pc = @ + 1, ![c].touched = @ + 1]
    /\ UNCHANGED <<mutex, p_parameters, restvars>>

\* the call returns, at its end or early (a failed addStartConfig,
\* addGoalConfig or findPath, an exception); the scoped_lock unlocks
Return(c) ==
    /\ \/ Stmt(c) = "return"
       \/ Stmt(c) = "access" /\ threads[c].touched > 0
    /\ mutex' = 0
    /\ threads' = [threads EXCEPT ![c] = NoThread]
    /\ UNCHANGED <<p_parameters, restvars>>

NextMutex ==
    \E c \in Callers :
       \/ \E planner \in Planners : \E entry \in Entries :
            Invoke(c, planner, entry)
       \/ Check(c)
       \/ Lock(c)
       \/ SetParams(c)
       \/ Access(c)
       \/ Return(c)

SpecMutex == InitMutex /\ [][NextMutex]_vars

(***************************************************************************)
(* What the claims speak of, stated on the stored graph itself.            *)
(***************************************************************************)
HasEdge(G, u, v) ==
    u # v /\ \E i \in 1..Len(G.edge_list) : G.edge_list[i].ends = {u, v}

RECURSIVE ReachFrom(_, _)
ReachFrom(G, S) ==
    LET S2 == S \cup {v \in Vertices(G) : \E u \in S : HasEdge(G, u, v)}
    IN  IF S2 = S THEN S ELSE ReachFrom(G, S2)

Reachable(G, u, v) == v \in ReachFrom(G, {u})

ConfigOf(G, u) == (CHOOSE n \in NodeSet(G) : n.vertex = u).nconfig

\* path is a sequence of nodes from node f to node t, each step an edge
IsPathFromTo(G, path, f, t) ==
    /\ Len(path) >= 1
    /\ path[1] = f
    /\ path[Len(path)] = t
    /\ \A i \in 1..(Len(path) - 1) : HasEdge(G, path[i].vertex, path[i + 1].vertex)

HandlesIndexNodeList(G) ==
    \A i \in 1..Len(G.node_list) : G.node_list[i].vertex = i - 1

SeqToSet(q) == {q[i] : i \in 1..Len(q)}

\* the configurations of P that chains of steps within t reach from S
RECURSIVE WithinChain(_, _, _)
WithinChain(P, S, t) ==
    LET S2 == S \cup {q \in P : \E p \in S : Eval(p, q) <= t}
    IN  IF S2 = S THEN S ELSE WithinChain(P, S2, t)

\* the samples, the start and the goal are one connected graph under the
\* neighbour threshold
SamplesConnect ==
    LET P == SeqToSet(vv_cs_samples) \cup
                 {p_parameters.vinitialconfig, p_parameters.vgoalconfig}
    IN  WithinChain(P, {p_parameters.vinitialconfig}, p_parameters.f_neigh_thresh) = P

\* C1: with no obstacle (the oracle accepts every segment) and a node budget
\* of at least 2, when the samples with start and goal are connected under
\* the threshold, the PlanPath that follows InitPlan returns true and the
\* trajectory is non-empty, from the start configuration to the goal
\* configuration.
C1_PlanSucceeds ==
    [][(/\ plan.op = "InitPlan"
        /\ plan'.op = "PlanPath"
        /\ walls = {}
        /\ p_parameters.i_nnodes >= 2
        /\ Len(vv_cs_samples) = p_parameters.i_nnodes
        /\ SamplesConnect)
       => (/\ plan'.ret = TRUE
           /\ plan'.traj # <<>>
           /\ plan'.traj[1] = p_parameters.vinitialconfig
           /\ plan'.traj[Len(plan'.traj)] = p_parameters.vgoalconfig)]_vars

\* C2: a PlanPath that joined the start and the goal to the roadmap by an
\* edge each, and leaves the start node and the goal node in different
\* connected components, returns false.
C2_NoPathReported ==
    (/\ plan.op = "PlanPath"
     /\ ~crashed
     /\ plan.startEdge
     /\ plan.goalEdge
     /\ ~Reachable(g_roadmap, n_start.vertex, n_goal.vertex))
    => plan.ret = FALSE

\* C3: findPath runs findPathAS first; when that search does not reach the
\* goal and leaves the list empty, findPathDK runs after it; findPath returns
\* false only after both searches ran.
C3_SearchFallback ==
    (/\ plan.op = "PlanPath"
     /\ ~crashed
     /\ plan.searches # <<>>)
    => (/\ plan.searches[1] = "AS"
        /\ (~plan.asFound /\ plan.asPath = <<>>) => plan.searches = <<"AS", "DK">>
        /\ ~plan.ret => plan.searches = <<"AS", "DK">>)

\* the stored weight of the edge between u and v
WeightOf(G, u, v) ==
    (CHOOSE e \in SeqToSet(G.edge_list) : e.ends = {u, v}).weight

RECURSIVE PathWeight(_, _, _)
PathWeight(G, path, i) ==
    IF i >= Len(path) THEN 0
    ELSE WeightOf(G, path[i].vertex, path[i + 1].vertex) + PathWeight(G, path, i + 1)

\* the weight sums of the chains that reach v: those d holds for its
\* neighbours, each with the edge to v, and the one d holds for v
Cand(G, d, v) ==
    {d[u] + WeightOf(G, u, v) : u \in {x \in DOMAIN d : HasEdge(G, x, v)}}
        \cup (IF v \in DOMAIN d THEN {d[v]} ELSE {})

Least(S) == CHOOSE m \in S : \A n \in S : m <= n

\* the least weight sums of the chains of at most k edges from f, by vertex
\* (unreached vertices are absent)
RECURSIVE LeastSums(_, _, _)
LeastSums(G, f, k) ==
    IF k = 0 THEN [v \in {f} |-> 0]
    ELSE With(LeastSums(G, f, k - 1), LAMBDA d :
           [v \in {x \in Vertices(G) : Cand(G, d, x) # {}} |->
               Least(Cand(G, d, v))])

ShortestSum(G, f, t) == LeastSums(G, f, G.num_vertices)[t]

\* C11: the path findPathDK reconstructs between `from` and a reachable `to`
\* (the list it leaves, `from` put in front when the call left it out) is a
\* chain of edges whose stored weights sum to the least sum of any chain
\* from `from` to `to`, fractional weights included.
C11_DKShortest ==
    (/\ call.op = "findPathDK"
     /\ call.inlist = <<>>
     /\ call.a.vertex # call.b.vertex
     /\ Reachable(g_roadmap, call.a.vertex, call.b.vertex))
    => LET path == IF call.ret THEN call.outlist ELSE <<call.a>> \o call.outlist
       IN  /\ IsPathFromTo(g_roadmap, path, call.a, call.b)
           /\ PathWeight(g_roadmap, path, 1) =
                  ShortestSum(g_roadmap, call.a.vertex, call.b.vertex)

\* C13: a PlanPath call that returns false appends no point to the
\* trajectory; one that returns true appends one point per node of the path
\* its search found (the nodes the call put on l_pathnodes), in path order.
C13_OutputOnlyOnSuccess ==
    [][(plan'.op = "PlanPath" /\ ~crashed')
       => LET found == SubSeq(l_pathnodes', 1, Len(l_pathnodes') - Len(l_pathnodes))
          IN  /\ ~plan'.ret => plan'.traj = <<>>
              /\ plan'.ret =>
                   /\ Len(plan'.traj) = Len(found)
                   /\ \A i \in 1..Len(found) :
                          found[i].nconfig # <<>> => plan'.traj[i] = found[i].nconfig]_vars

\* C14: addStartConfig and addGoalConfig return false whenever they join the
\* inserted configuration to no neighbour (none within the threshold, or the
\* oracle rejects every one), whatever n_start and n_goal held before: a
\* PlanPath that went on to its search joined both by an edge.
C14_NoEdgeFails ==
    (/\ plan.op = "PlanPath"
     /\ ~crashed
     /\ plan.searches # <<>>)
    => (plan.startEdge /\ plan.goalEdge)

\* C15: a PlanPath call that fails on the length of the start configuration,
\* or (the start added) on the length of the goal configuration, returns
\* false and leaves node_list and the edges of the roadmap as they were
\* before the call.
C15_MismatchKeepsRoadmap ==
    [][(/\ plan'.op = "PlanPath"
        /\ p_parameters.set
        /\ \/ Len(p_parameters.vinitialconfig) # p_robot
           \/ /\ addStartConfig(g_roadmap, walls, p_parameters, p_robot, n_start).ret
              /\ Len(p_parameters.vgoalconfig) # p_robot)
       => (/\ plan'.ret = FALSE
           /\ g_roadmap'.node_list = g_roadmap.node_list
           /\ g_roadmap'.edge_list = g_roadmap.edge_list)]_vars

\* C17: every buildRoadMap, failed sampler calls or not, leaves vv_cs_samples
\* i_nnodes samples longer, and the roadmap InitPlan has created holds
\* exactly i_nnodes nodes when InitPlan returns, on a later InitPlan of the
\* same planner as well.
C17_BudgetExact ==
    [][plan'.op = "InitPlan"
       => (/\ Len(vv_cs_samples') = Len(vv_cs_samples) + p_parameters'.i_nnodes
           /\ Len(g_roadmap'.node_list) = p_parameters'.i_nnodes)]_vars

\* C18: after any sequence of InitPlan and PlanPath calls the roadmap holds
\* at most max_nodes nodes, the bound it was constructed with, and both ends
\* of every edge are vertices of nodes of node_list.
C18_NodeBudget ==
    p_parameters.set
    => (/\ Len(g_roadmap.node_list) <= g_roadmap.max_nodes
        /\ \A i \in 1..Len(g_roadmap.edge_list) :
               g_roadmap.edge_list[i].ends \subseteq Handles(g_roadmap))

\* C4: findPathDK between two distinct nodes joined by a chain of edges,
\* called with an empty list, returns true and leaves the list holding the
\* node sequence from `from` to `to`, each consecutive pair an edge.
C4_DKFindsPath ==
    (/\ call.op = "findPathDK"
     /\ call.inlist = <<>>
     /\ call.a.vertex # call.b.vertex
     /\ Reachable(g_roadmap, call.a.vertex, call.b.vertex))
    => (/\ call.ret = TRUE
        /\ IsPathFromTo(g_roadmap, call.outlist, call.a, call.b))

\* C5: findPathDK between two nodes with no chain of edges between them
\* returns false.
C5_DKReportsNoPath ==
    (/\ call.op = "findPathDK"
     /\ ~Reachable(g_roadmap, call.a.vertex, call.b.vertex))
    => call.ret = FALSE

\* C12: after a findPathAS or findPathDK call that was handed an empty list
\* and returned true, every two consecutive nodes of the list are within the
\* neighbour threshold of each other.
C12_PathStepsWithin ==
    (/\ call.op \in {"findPathAS", "findPathDK"}
     /\ ~crashed
     /\ call.inlist = <<>>
     /\ call.ret = TRUE)
    => \A i \in 1..(Len(call.outlist) - 1) :
           Eval(call.outlist[i].nconfig, call.outlist[i + 1].nconfig)
               <= g_roadmap.neigh_thresh

\* C16: findNN returns 0 on a graph of at most one node, and returns 0 for
\* every handle that is not the handle of a stored node, the value equal to
\* the node count included.
C16_FindNNDegenerate ==
    call.op = "findNN"
    => (/\ Len(g_roadmap.node_list) <= 1 => call.ret = 0
        /\ call.a \notin Handles(g_roadmap) => call.ret = 0)

\* the nodes findNN is to report for handle n
Qualifying(G, n) ==
    {m \in NodeSet(G) : /\ m.vertex # n
                        /\ ~HasEdge(G, n, m.vertex)
                        /\ Eval(ConfigOf(G, n), m.nconfig) <= G.neigh_thresh}

\* C6: on a graph of at least two nodes, findNN(n, out) for a handle n that
\* addNode returned sets out to exactly the stored nodes other than n, not
\* adjacent to n and within the threshold of n, and returns their number.
C6_FindNNExact ==
    (/\ call.op = "findNN"
     /\ call.a \in Handles(g_roadmap)
     /\ Len(g_roadmap.node_list) >= 2)
    => (/\ SeqToSet(call.outlist) = Qualifying(g_roadmap, call.a)
        /\ Len(call.outlist) = Cardinality(Qualifying(g_roadmap, call.a))
        /\ call.ret = Cardinality(Qualifying(g_roadmap, call.a)))

AddEdgeAccepts(G, u, v) ==
    /\ u # v
    /\ ~HasEdge(G, u, v)
    /\ Eval(ConfigOf(G, u), ConfigOf(G, v)) <= G.neigh_thresh

\* C7: addEdge(u, v) returns true iff u # v, no edge joins u and v yet and
\* their distance is within the threshold; a refused call leaves the graph
\* as it was; an accepted call adds the one edge {u, v} weighted by the
\* distance; no call ever removes an edge, so a repeated call is refused.
C7_AddEdgeDecision ==
    [][/\ \A i \in 1..Len(g_roadmap.edge_list) :
              /\ i <= Len(g_roadmap'.edge_list)
              /\ g_roadmap'.edge_list[i] = g_roadmap.edge_list[i]
       /\ call'.op = "addEdge" =>
            /\ call'.ret = AddEdgeAccepts(g_roadmap, call'.a, call'.b)
            /\ ~call'.ret => g_roadmap' = g_roadmap
            /\ call'.ret =>
                 g_roadmap' = [g_roadmap EXCEPT !.edge_list = Append(@,
                     [ends |-> {call'.a, call'.b},
                      weight |-> Eval(ConfigOf(g_roadmap, call'.a),
                                      ConfigOf(g_roadmap, call'.b))])]]_vars

\* an accepted addEdge on a graph that also holds a pair too far apart
C7_Witness ==
    /\ call.op = "addEdge"
    /\ call.ret = TRUE
    /\ Len(g_roadmap.edge_list) >= 2
    /\ \E m, n \in NodeSet(g_roadmap) : Eval(m.nconfig, n.nconfig) > g_roadmap.neigh_thresh

\* C8: after any sequence of InitPlan and PlanPath calls, every edge of the
\* roadmap joins two different nodes, no two edges join the same pair, every
\* weight is the distance of its ends and within the neighbour threshold,
\* and the oracle accepts the segment between the ends of every edge.
C8_RoadmapEdges ==
    \A i \in 1..Len(g_roadmap.edge_list) :
        LET e == g_roadmap.edge_list[i]
        IN  /\ Cardinality(e.ends) = 2
            /\ e.ends \subseteq Handles(g_roadmap)
            /\ \A j \in 1..Len(g_roadmap.edge_list) :
                   j # i => g_roadmap.edge_list[j].ends # e.ends
            /\ e.weight <= g_roadmap.neigh_thresh
            /\ \A u, v \in e.ends :
                   u # v => /\ e.weight = Eval(ConfigOf(g_roadmap, u), ConfigOf(g_roadmap, v))
                            /\ ~CheckCollision(walls, ConfigOf(g_roadmap, u),
                                               ConfigOf(g_roadmap, v))

\* a roadmap with an edge put in by buildRoadMap and edges put in by PlanPath,
\* among obstacles that part two of its nodes within the threshold
C8_Witness ==
    /\ plan.op = "PlanPath"
    /\ ~crashed
    /\ walls # {}
    /\ Len(vv_cs_samples) >= 2
    /\ Len(g_roadmap.edge_list) >= 3
    /\ HasEdge(g_roadmap, g_roadmap.node_list[1].vertex, g_roadmap.node_list[2].vertex)
    /\ \E m, n \in NodeSet(g_roadmap) :
          /\ Eval(m.nconfig, n.nconfig) <= g_roadmap.neigh_thresh
          /\ CheckCollision(walls, m.nconfig, n.nconfig)

\* C9: on a graph whose handles index node_list, findPathAS between nodes
\* joined by a chain of edges, called with an empty list, examines the goal
\* last and once, and leaves the list holding a node sequence from `from`
\* to `to`, each consecutive pair an edge.
C9_ASReconstructs ==
    (/\ call.op = "findPathAS"
     /\ ~crashed
     /\ HandlesIndexNodeList(g_roadmap)
     /\ call.inlist = <<>>
     /\ Reachable(g_roadmap, call.a.vertex, call.b.vertex))
    => (/\ call.found
        /\ Len(call.examined) >= 1
        /\ \A i \in 1..Len(call.examined) :
              (call.examined[i] = call.b.vertex) <=> (i = Len(call.examined))
        /\ IsPathFromTo(g_roadmap, call.outlist, call.a, call.b))

\* a found path of three nodes
C9_Witness ==
    /\ call.op = "findPathAS"
    /\ ~crashed
    /\ HandlesIndexNodeList(g_roadmap)
    /\ call.inlist = <<>>
    /\ call.found
    /\ Len(call.outlist) = 3
    /\ ~HasEdge(g_roadmap, call.a.vertex, call.b.vertex)

\* C10: every findPathAS call that returns, returns true; when the search
\* examined every vertex reachable from the start and never the goal, the
\* list is exactly the one handed in.
C10_ASAlwaysTrue ==
    (call.op = "findPathAS" /\ ~crashed)
    => (/\ call.ret = TRUE
        /\ ~call.found =>
             /\ SeqToSet(call.examined) = ReachFrom(g_roadmap, {call.a.vertex})
             /\ call.b.vertex \notin SeqToSet(call.examined)
             /\ call.outlist = call.inlist)

\* an exhausted search handed a non-empty list
C10_Witness ==
    /\ call.op = "findPathAS"
    /\ ~crashed
    /\ ~call.found
    /\ call.inlist # <<>>
    /\ Len(call.examined) >= 2
    /\ call.ret = TRUE

\* the distance from q to the nearest of the first n nodes of T (n > 0)
NearestDist(T, n, q) ==
    CHOOSE d \in {Eval(q, T._nodes[i].q) : i \in 1..n} :
        \A i \in 1..n : d <= Eval(q, T._nodes[i].q)

\* the last call was Extend on a non-empty tree
ExtendedNonEmpty == ext.op = "Extend" /\ ext.before > 0

\* the target of the last Extend lay within 0.1 x _fStepLength of the tree
TargetNear ==
    10 * NearestDist(tree, ext.before, ext.target) <= tree._fStepLength

\* C19: on a non-empty tree, Extend toward a target within 0.1 x stepLength
\* of the tree's nearest node returns Connected, appends no node, leaves the
\* out-index at a nearest node, and calls neither the constraint function
\* nor the collision oracle.
C19_NearTargetConnected ==
    (ExtendedNonEmpty /\ TargetNear)
    => (/\ ext.returned
        /\ ext.ret = ET_Connected
        /\ ext.added = 0
        /\ ext.lastindex \in 0..(ext.before - 1)
        /\ Eval(ext.target, tree._nodes[ext.lastindex + 1].q)
             = NearestDist(tree, ext.before, ext.target)
        /\ ext.asked = <<>>
        /\ ext.consulted = 0)

\* a target near, but not on, the second node of a tree whose environment
\* is full of obstacles and whose parameters hold a constraint function
C19_Witness ==
    /\ ExtendedNonEmpty
    /\ TargetNear
    /\ NearestDist(tree, ext.before, ext.target) > 0
    /\ ext.lastindex = 1
    /\ walls = Blocked
    /\ constraintfn.set
    /\ ext.ret = ET_Connected

\* every segment the last Extend put to the collision oracle was rejected
AllRejected == \A i \in 1..Len(ext.asked) : ext.asked[i].hit

\* C20, as stated: for every non-empty tree and every target, an Extend
\* call during which the collision oracle rejects every segment put to it
\* returns Failed and appends no node.
C20_BlockedFails ==
    (ExtendedNonEmpty /\ ext.returned /\ AllRejected)
    => (ext.ret = ET_Failed /\ ext.added = 0)

\* C20, amended: the same for every target farther than 0.1 x stepLength
\* from the tree's nearest node.
C20_BlockedFailsFarTarget ==
    (ExtendedNonEmpty /\ ~TargetNear /\ AllRejected)
    => (ext.returned /\ ext.ret = ET_Failed /\ ext.added = 0)

\* a far target, the first segment put to the oracle and rejected
C20_Witness ==
    /\ ExtendedNonEmpty
    /\ ~TargetNear
    /\ ext.before > 1
    /\ Len(ext.asked) = 1
    /\ ext.asked[1].hit
    /\ ext.ret = ET_Failed
    /\ ext.added = 0

\* the nodes the last Extend appended, as positions of _nodes
Appended == (ext.before + 1)..Len(tree._nodes)

\* the indices of the nodes nearest to the target of the last Extend among
\* those the tree held at entry
NearestAtEntry ==
    {i \in 0..(ext.before - 1) :
        Eval(ext.target, tree._nodes[i + 1].q)
            = NearestDist(tree, ext.before, ext.target)}

\* the last Extend stopped at a refusal of the constraint function or at a
\* step that did not move (the constraint function was called once more
\* than the oracle), or at a segment the oracle rejected
StoppedByCheck ==
    \/ ext.consulted = Len(ext.asked) + 1
    \/ ext.asked # <<>> /\ ext.asked[Len(ext.asked)].hit

\* C24: for every Extend call that returns on a non-empty tree, Failed
\* implies zero nodes appended; Success implies at least one node appended
\* and a stop at a constraint refusal, a degenerate step or a rejected
\* segment; the out-index is the last node appended, or with none appended
\* a nearest node of the tree at entry.
C24_ExtendStatus ==
    (ExtendedNonEmpty /\ ext.returned)
    => (/\ ext.ret \in {ET_Failed, ET_Sucess, ET_Connected}
        /\ ext.ret = ET_Failed => ext.added = 0
        /\ ext.ret = ET_Sucess => (ext.added >= 1 /\ StoppedByCheck)
        /\ ext.added > 0 => ext.lastindex = Len(tree._nodes) - 1
        /\ ext.added = 0 => ext.lastindex \in NearestAtEntry)

\* a call that appended two nodes and stopped at a rejected segment
C24_Witness ==
    /\ ExtendedNonEmpty
    /\ ext.returned
    /\ ext.ret = ET_Sucess
    /\ ext.added = 2
    /\ ext.asked[Len(ext.asked)].hit
    /\ ext.lastindex = Len(tree._nodes) - 1

\* C25: every node Extend appends lies within one step length of its parent
\* and strictly nearer to the target than its parent; with an oracle that
\* accepts every segment and no constraint function, Extend without
\* bOneStep returns Connected.  (Stated for trees whose _dof is the
\* robot's.)
C25_StepBound ==
    (ExtendedNonEmpty /\ tree._dof \in RobotDOFs)
    => (/\ \A i \in Appended :
              LET n == tree._nodes[i]
                  parent == tree._nodes[n.parent + 1]
              IN  /\ Eval(n.q, parent.q) <= tree._fStepLength
                  /\ Eval(n.q, ext.target) < Eval(parent.q, ext.target)
        /\ (walls = {} /\ ~constraintfn.set /\ ~ext.bOneStep)
             => (ext.returned /\ ext.ret = ET_Connected))

\* C26: Extend with bOneStep appends at most one node; when its first step
\* passes the constraint function and the oracle it appends exactly one
\* node, whose parent is a nearest node of the tree at entry, and returns
\* Connected, however far the new node is from the target.
C26_OneStep ==
    (ExtendedNonEmpty /\ ext.bOneStep)
    => (/\ ext.returned
        /\ ext.added <= 1
        /\ (ext.asked # <<>> /\ ~ext.asked[1].hit)
             => (/\ ext.added = 1
                 /\ tree._nodes[Len(tree._nodes)].parent \in NearestAtEntry
                 /\ ext.ret = ET_Connected))

\* one step made, the constraint function passed, and the new node still
\* farther than 0.1 x _fStepLength from the target
C26_Witness ==
    /\ ExtendedNonEmpty
    /\ ext.bOneStep
    /\ ext.before > 1
    /\ constraintfn.set
    /\ ext.added = 1
    /\ ext.ret = ET_Connected
    /\ 10 * Eval(tree._nodes[Len(tree._nodes)].q, ext.target) > tree._fStepLength

\* C30, as stated: when addStartConfig adds the edge between the new start
\* node and a neighbour, n_start is that neighbour's stored node, not the
\* new start node; likewise addGoalConfig and n_goal.
C30_DesignatedNeighbor ==
    [][(plan'.op = "PlanPath" /\ ~crashed' /\ p_parameters.set)
       => LET st == newVertex(g_roadmap)
          IN  /\ plan'.startEdge =>
                   /\ n_start' \in NodeSet(g_roadmap')
                   /\ n_start'.vertex # st
                   /\ HasEdge(g_roadmap', n_start'.vertex, st)
              /\ plan'.goalEdge =>
                   /\ n_goal' \in NodeSet(g_roadmap')
                   /\ n_goal'.vertex # st + 1
                   /\ HasEdge(g_roadmap', n_goal'.vertex, st + 1)]_vars

\* C30, amended: n_start is the new start node itself, with the handle
\* addNode returned and the start configuration; likewise n_goal.
C30_DesignatedInserted ==
    [][(plan'.op = "PlanPath" /\ ~crashed' /\ p_parameters.set)
       => LET st == newVertex(g_roadmap)
          IN  /\ plan'.startEdge =>
                   n_start' = s_node(p_parameters.vinitialconfig, st)
              /\ plan'.goalEdge =>
                   n_goal' = s_node(p_parameters.vgoalconfig, st + 1)]_vars

\* start and goal each joined to a neighbour of another configuration
C30_Witness ==
    /\ plan.op = "PlanPath"
    /\ ~crashed
    /\ plan.startEdge
    /\ plan.goalEdge
    /\ n_start.nconfig # n_goal.nconfig
    /\ \E u \in Handles(g_roadmap) :
          /\ HasEdge(g_roadmap, u, n_start.vertex)
          /\ ConfigOf(g_roadmap, u) # n_start.nconfig
    /\ \E u \in Handles(g_roadmap) :
          /\ HasEdge(g_roadmap, u, n_goal.vertex)
          /\ ConfigOf(g_roadmap, u) # n_goal.nconfig

(***************************************************************************)
(* SBLPlanner claims.                                                      *)
(***************************************************************************)
\* the planner's two trees, whichever pointer holds them
SBLTrees == {t_start, t_goal}

\* C21: in every state of the planner's two trees the root carries the
\* no-parent sentinel -1 and every other node's parent is the index of a
\* node inserted strictly earlier, so parent links reach the root without
\* a cycle.
C21_TreeParents ==
    \A T \in SBLTrees : \A i \in 1..Len(T._nodes) :
       IF i = 1 THEN T._nodes[i].parent = -1
       ELSE T._nodes[i].parent \in 0..(i - 2)

\* the tree InitPlan created as t_start (rooted at the start configuration)
\* and the one it created as t_goal, whichever pointer holds them now
StartRooted == CHOOSE T \in SBLTrees : T.name = "start"
GoalRooted == CHOOSE T \in SBLTrees : T.name = "goal"

\* the configurations on the parent chain from node i (index from 0) up to
\* the root, the node whose parent is no earlier node
RECURSIVE ChainToRoot(_, _)
ChainToRoot(T, i) ==
    LET n == T._nodes[i + 1]
    IN  IF n.parent \in 0..(i - 1)
        THEN <<n.q>> \o ChainToRoot(T, n.parent)
        ELSE <<n.q>>

Reverse(s) == [k \in 1..Len(s) |-> s[Len(s) + 1 - k]]

SBLReturnedTrue ==
    /\ sbl.outcome = "true"
    /\ plan.op = "PlanPath"
    /\ plan.ret

RoundOf(kind) == sbl'.rounds = sbl.rounds + 1 /\ sbl'.last.kind = kind

SBLReturns == sbl.pc = "loop" /\ sbl'.pc = "idle" /\ sbl'.outcome = "true"

\* start and goal lie farther apart than 0.1 x stepLength
StartGoalApart ==
    10 * Eval(p_parameters.vinitialconfig, p_parameters.vgoalconfig) > sbl.step

MidCall(c) == threads[c].touched > 0

\* C23: each InitPlan or PlanPath call holds the environment mutex from
\* before its first read or write of the roadmap or trees until it returns,
\* so the accesses of two callers' calls never interleave.
C23_CallsDoNotInterleave ==
    /\ \A c \in Callers :
          (Stmt(c) = "access" \/ MidCall(c)) => mutex = c
    /\ \A c \in Callers : \A d \in Callers \ {c} :
          ~(MidCall(c) /\ MidCall(d))

\* one caller in the middle of its PlanPath, the other stopped at the lock
\* of an InitPlan on the other planner
C23_Witness ==
    \E c \in Callers : \E d \in Callers \ {c} :
       /\ MidCall(c)
       /\ threads[c].entry = "PlanPath"
       /\ Stmt(d) = "lock"
       /\ threads[d].entry = "InitPlan"
       /\ threads[d].planner # threads[c].planner

(***************************************************************************)
(* Handles, stale paths, stale connection.                                 *)
(***************************************************************************)
\* C31: in a SpatialGraph built by addNode calls with either constructor,
\* every stored node's vertex handle equals its position in node_list and
\* is smaller than the node count, so the A* heuristic never reads outside
\* its position-ordered copy of node_list.
C31_HandleIsPosition ==
    g_roadmap.built =>
       /\ \A i \in 1..Len(g_roadmap.node_list) :
             /\ g_roadmap.node_list[i].vertex = i - 1
             /\ InNodeMap(g_roadmap, g_roadmap.node_list[i].vertex)
       /\ ~crashed

\* the nodes the search of this PlanPath step pushed onto the front of
\* l_pathnodes
FoundThisCall ==
    SubSeq(l_pathnodes', 1, Len(l_pathnodes') - Len(l_pathnodes))

\* C32: the points a PlanPath call appends to its trajectory are exactly
\* the nodes of the path found during that call: the path list is empty
\* when the search starts and no node of an earlier call's path is emitted.
C32_NoStalePath ==
    [][(plan'.op = "PlanPath" /\ plan'.ret /\ ~crashed')
       => /\ l_pathnodes = <<>>
          /\ plan'.traj = [i \in 1..Len(FoundThisCall) |->
                              TPoint(FoundThisCall[i], p_robot)]]_vars

=============================================================================
